---- MODULE Spec2Model ----
(***************************************************************************)
(* CreepyBird: a danmaku overlay engine driven by a 100 ms interval.       *)
(*                                                                         *)
(* Units.  Times are in centiseconds (1.02 s is 102), pixels are pixels.   *)
(* The engine object is the record `cb`; its fields carry the names of the *)
(* JavaScript fields without the leading underscore.  The DOM, the video   *)
(* element and the pending XMLHttpRequests are the environment.            *)
(*                                                                         *)
(* JavaScript runs handlers to completion, so every public operation and   *)
(* every event handler is one action.  The only handler that is split is   *)
(* the interval callback, whose `while (true)` loop (loadDanmaku) is two   *)
(* steps per iteration (LoopHead, LoopBody); while it runs (pc # "idle")   *)
(* no other action is enabled.                                             *)
(*                                                                         *)
(* The bounds of the environment (the times the video reports, its         *)
(* heights, the server's responses, ...) are the record `world`, fixed by  *)
(* the initial state; the specifications differ only in it.                *)
(***************************************************************************)
EXTENDS Integers, Sequences, FiniteSets, TLC

VARIABLES
    cb,          \* the CreepyBird instance (all of its fields) and, in cb.dom,
                 \* what it has put on the page
    videoPaused, \* videoElement.paused
    videoTime,   \* videoElement.currentTime
    clientHeight,\* videoElement.clientHeight
    pending,     \* load() calls whose promise has not settled
    loadCount,   \* number of load() calls so far
    dataGen,     \* number of collections built so far
    pc,          \* position of the interval callback: "idle", "head", "body"
    index,       \* loadDanmaku's local `index`
    currentTime, \* loadDanmaku's parameter `currentTime`
    lastOp,      \* history: the operation that made the last step
    dropped,     \* history: annotations that found no Lane since the cursor was last unset
    deferred,    \* history: the index the last tick stopped at for being out of tolerance,
                 \*          while no operation of the engine has been called since
    world        \* the bounds of the environment (never changes)

vars == <<cb, videoPaused, videoTime, clientHeight, pending, loadCount, dataGen,
          pc, index, currentTime, lastOp, dropped, deferred, world>>

-----------------------------------------------------------------------------
(* Values *)

Empty   == "empty"
Hide    == "hide"
Playing == "playing"
Paused  == "paused"
CreepyBirdState == {Empty, Hide, Playing, Paused}

Float  == 0
Bottom == 1
Top    == 2
DanmakuType == {Float, Bottom, Top}

Null == "null"      \* null of a reference field (video, overlay, interval)
NULL == -1          \* null of an index (_nextDanmakuIndex, search result)
None == <<>>        \* null of a structured field (_data, fixedItem)
Some(x) == <<x>>
Get(o) == o[1]

IntervalId == "interval"
Observer   == "observer"
Handlers   == "handlers"
Video      == "video"
Overlay    == "overlay"

Tolerance        == 10     \* 0.1 s
FixedDuration    == 500    \* 5 s
DefaultFontSize  == 24
LineSpacingTenths == 12    \* 1.2
DefaultLineMargin == 50
DanmakuSpeed     == 100    \* pixels per second

-----------------------------------------------------------------------------
(* Bounds of the environment *)

MaxLoads == 2                       \* load() calls in one behaviour
MaxGeometryLoads == 1               \* the same, in the environment of the geometry checks

\* Raw tuples [time, mode, color, userId, text]; `k` stands for the three
\* fields the engine only copies.
Tuple(t, m, k) == [time |-> t, mode |-> m, k |-> k]

PayloadA   == <<Tuple(105, Float, 1), Tuple(100, Float, 2)>>
PayloadL   == <<Tuple(700, Top, 1), Tuple(100, Float, 2)>>
PayloadBad == <<Tuple(100, Float, 1), Tuple(100, 3, 2)>>
PayloadB   == <<Tuple(100, Float, 1), Tuple(105, Float, 2), Tuple(700, Top, 3)>>
PayloadF   == <<Tuple(100, Bottom, 1), Tuple(102, Top, 2), Tuple(104, Top, 3),
                Tuple(106, Float, 4), Tuple(700, Top, 5)>>
PayloadT   == <<Tuple(115, Float, 1), Tuple(700, Top, 2)>>
PayloadD   == <<Tuple(100, Float, 1), Tuple(100, Float, 2), Tuple(100, Float, 3)>>

\* What the XMLHttpRequest can end with: status 0 stands for onerror.
Response(status, code, data) == [status |-> status, code |-> code, data |-> data]
Failures ==
    { Response(0, 0, <<>>), Response(404, 0, <<>>), Response(200, 1, <<>>) }

\* The environment of the lifecycle checks: playback times the video reports,
\* clientHeight values, arguments of setFontSize and setLineMargin, responses
\* of the server, the number of load() calls in one behaviour, and the values
\* videoWidth - rightEdge takes as an item scrolls to the left, and
\* videoElement.clientWidth.
LifecycleWorld ==
    [ times       |-> {100, 600},
      heights     |-> {29},
      fontSizes   |-> {24},
      lineMargins |-> {-1, 50},
      responses   |-> Failures \cup {Response(200, 0, PayloadL), Response(200, 0, PayloadBad)},
      maxLoads    |-> MaxLoads,
      margins     |-> <<-50, 50>>,
      clientWidth |-> 800 ]

\* The environment of the resize checks: the video changes its height and the
\* font size changes, so the Lane Set grows and shrinks.
ResizeWorld ==
    [LifecycleWorld EXCEPT !.heights = {29, 58}, !.fontSizes = {24, 48}]

\* The environment of the tick checks: one collection whose last annotations
\* are due at the playback times the video reports, and one whose last
\* annotation is not.
TickWorld ==
    [LifecycleWorld EXCEPT
        !.times     = {100, 102, 600},
        !.heights   = {29, 58},
        !.responses = Failures \cup {Response(200, 0, PayloadA), Response(200, 0, PayloadL)}]

\* The environment of the search checks: a collection in which several
\* annotations have the same time, and one in which all times differ.
SearchWorld ==
    [LifecycleWorld EXCEPT
        !.responses = Failures \cup {Response(200, 0, PayloadD), Response(200, 0, PayloadL)}]

\* The environment of the tolerance checks: two scrolling annotations at 1.0 s
\* and 1.05 s followed by a late one, a video that reports 1.02 s, two Lanes.
ToleranceWorld ==
    [LifecycleWorld EXCEPT
        !.times     = {102, 600},
        !.heights   = {58},
        !.responses = Failures \cup {Response(200, 0, PayloadB)}]

\* The environment of the Lane checks: two Lanes, and a collection with more
\* fixed annotations than Lanes and a scrolling one, all due at 1.0 s.
LaneWorld ==
    [LifecycleWorld EXCEPT
        !.heights   = {58},
        !.responses = Failures \cup {Response(200, 0, PayloadF)}]

\* The environment of the deferral checks: a collection whose first annotation
\* is 0.15 s ahead of the first playback time the video reports and 0.05 s
\* behind the second, and one whose first annotation is due at once.
DeferWorld ==
    [LifecycleWorld EXCEPT
        !.times     = {100, 120},
        !.responses = Failures \cup {Response(200, 0, PayloadT), Response(200, 0, PayloadL)}]

\* The environment of the geometry checks: heights and font sizes that give
\* zero, one and two Lanes.
GeometryWorld ==
    [ResizeWorld EXCEPT !.maxLoads = MaxGeometryLoads]

-----------------------------------------------------------------------------
(* Danmaku, DanmakuItem, DanmakuLine *)

\* new Danmaku(time, mode, ...): `id` is the object's identity (the load that
\* made it and the tuple it was made from).
Danmaku(gen, tuple) ==
    [id |-> <<gen, tuple.k>>, time |-> tuple.time, mode |-> tuple.mode]

validMode(mode) == mode \in {Float, Bottom, Top}

\* new DanmakuItem(danmaku, this) once loadDanmaku has started its animation;
\* `margin` is videoWidth - rightEdge of the new element.
DanmakuItem(danmaku, margin) ==
    [danmaku |-> danmaku, playState |-> "running", margin |-> margin]

DanmakuLine == [queue |-> <<>>, fixedItem |-> None]

hasFixed(line) == line.fixedItem # None

\* Array.prototype.sort with (a, b) => a.time - b.time: a stable sort.
RECURSIVE insertByTime(_, _)
insertByTime(sorted, d) ==
    IF sorted = <<>> THEN <<d>>
    ELSE IF Head(sorted).time <= d.time
         THEN <<Head(sorted)>> \o insertByTime(Tail(sorted), d)
         ELSE <<d>> \o sorted

RECURSIVE sortByTime(_)
sortByTime(s) ==
    IF s = <<>> THEN <<>>
    ELSE LET front == SubSeq(s, 1, Len(s) - 1)
         IN insertByTime(sortByTime(front), s[Len(s)])

-----------------------------------------------------------------------------
(* The engine *)

Constructor ==
    [ state            |-> Empty,
      isVisible        |-> FALSE,
      intervalId       |-> Null,
      videoElement     |-> Null,
      overlayElement   |-> Null,
      data             |-> None,
      fontSize         |-> DefaultFontSize,
      lineMargin       |-> DefaultLineMargin,
      danmakuLines     |-> <<>>,
      nextDanmakuIndex |-> NULL,
      activeDanmaku    |-> {},
      resizeObserver       |-> Null,
      intersectionObserver |-> Null,
      handlers             |-> Null,
      \* the page: overlay elements in document.body, connected observers of
      \* the video, sets of play/pause/seeking listeners on the video, and
      \* whether document.head holds a keyframes style sheet of this engine
      dom |-> [overlays |-> 0, observers |-> 0, listeners |-> 0, styleSheets |-> FALSE] ]

startInterval(c) ==
    IF c.intervalId = Null THEN [c EXCEPT !.intervalId = IntervalId] ELSE c

\* mutant of clearInterval: the cursor is kept
clearIntervalKeepsCursor(c) ==
    IF c.intervalId # Null THEN [c EXCEPT !.intervalId = Null] ELSE c

clearInterval(c) ==
    IF c.intervalId # Null
    THEN [c EXCEPT !.intervalId = Null, !.nextDanmakuIndex = NULL]
    ELSE c

\* animation.pause() / animation.play() on every queued item of every line
setPlayState(lines, from, to) ==
    [i \in DOMAIN lines |->
        [lines[i] EXCEPT !.queue =
            [j \in DOMAIN lines[i].queue |->
                IF lines[i].queue[j].playState = from
                THEN [lines[i].queue[j] EXCEPT !.playState = to]
                ELSE lines[i].queue[j]]]]

\* mutant of pause: the interval is not cleared
pauseKeepsInterval(c) ==
    IF c.state # Playing THEN c
    ELSE [c EXCEPT
            !.danmakuLines = setPlayState(c.danmakuLines, "running", "paused"),
            !.state = Paused]

pause(c) ==
    IF c.state # Playing THEN c
    ELSE [clearInterval(c) EXCEPT
            !.danmakuLines = setPlayState(c.danmakuLines, "running", "paused"),
            !.state = Paused]

\* mutant of resume: the animations are started on emptied queues
resumeEmptiesQueues(c) ==
    IF c.state # Paused THEN c
    ELSE [startInterval(c) EXCEPT
            !.danmakuLines = [i \in DOMAIN c.danmakuLines |->
                                 [c.danmakuLines[i] EXCEPT !.queue = <<>>]],
            !.state = Playing]

resume(c) ==
    IF c.state # Paused THEN c
    ELSE [startInterval(c) EXCEPT
            !.danmakuLines = setPlayState(c.danmakuLines, "paused", "running"),
            !.state = Playing]

\* mutant of show: the paused video is not looked at
showIgnoresPaused(c, paused) ==
    IF c.state # Hide THEN c
    ELSE [startInterval([c EXCEPT !.isVisible = TRUE]) EXCEPT !.state = Playing]

show(c, paused) ==
    IF c.state # Hide THEN c
    ELSE LET c1 == [startInterval([c EXCEPT !.isVisible = TRUE])
                       EXCEPT !.state = Playing]
         IN IF c1.videoElement # Null /\ paused THEN pause(c1) ELSE c1

\* mutant of hide: the Empty guard is missing
hideUnguarded(c) ==
    [clearInterval([c EXCEPT !.isVisible = FALSE]) EXCEPT !.state = Hide]

hide(c) ==
    IF c.state = Empty THEN c
    ELSE [clearInterval([c EXCEPT !.isVisible = FALSE]) EXCEPT !.state = Hide]

\* mutant of seek: the cursor is kept
seekKeepsCursor(c) == c

seek(c) == [c EXCEPT !.nextDanmakuIndex = NULL]

setFontSize(c, size) == [c EXCEPT !.fontSize = size]

\* throws (no change) when margin < 0
setLineMargin(c, margin) ==
    IF margin < 0 THEN c ELSE [c EXCEPT !.lineMargin = margin]

calAvailableLines(c, height) ==
    IF c.videoElement = Null THEN 0
    ELSE LET lineHeight == (c.fontSize * LineSpacingTenths + 9) \div 10
         IN height \div lineHeight

\* mutant of updateDanmakuLines: excess Lanes are removed from the front
updateDanmakuLinesShift(c, height) ==
    LET availableLines == calAvailableLines(c, height)
        currentLines   == Len(c.danmakuLines)
    IN IF availableLines = currentLines THEN c
       ELSE IF availableLines < currentLines
       THEN [c EXCEPT !.danmakuLines =
                SubSeq(c.danmakuLines, currentLines - availableLines + 1, currentLines)]
       ELSE [c EXCEPT !.danmakuLines =
                c.danmakuLines \o [i \in 1..(availableLines - currentLines) |-> DanmakuLine]]

updateDanmakuLines(c, height) ==
    LET availableLines == calAvailableLines(c, height)
        currentLines   == Len(c.danmakuLines)
    IN IF availableLines = currentLines THEN c
       ELSE IF availableLines < currentLines
       THEN [c EXCEPT !.danmakuLines = SubSeq(c.danmakuLines, 1, availableLines)]
       ELSE [c EXCEPT !.danmakuLines =
                c.danmakuLines \o [i \in 1..(availableLines - currentLines) |-> DanmakuLine]]

detach(c) ==
    LET c1 == clearInterval(c)
        disconnected == (IF c1.resizeObserver # Null THEN 1 ELSE 0)
                        + (IF c1.intersectionObserver # Null THEN 1 ELSE 0)
    IN IF c1.videoElement = Null THEN c1
       ELSE [c1 EXCEPT !.resizeObserver = Null,
                       !.intersectionObserver = Null,
                       !.dom.observers = @ - disconnected,
                       !.dom.listeners = IF c1.handlers # Null THEN @ - 1 ELSE @,
                       !.danmakuLines = <<>>,
                       !.dom.overlays = IF c1.overlayElement # Null THEN @ - 1 ELSE @,
                       !.overlayElement = Null,
                       !.videoElement = Null,
                       !.nextDanmakuIndex = NULL,
                       !.activeDanmaku = {},
                       !.handlers = Null,
                       !.state = Empty]

attachToVideo(c, height) ==
    LET c1 == IF c.state # Empty THEN detach(c) ELSE c
        c2 == [c1 EXCEPT !.videoElement = Video,
                         !.overlayElement = Overlay,
                         !.dom.overlays = @ + 1,
                         !.intersectionObserver = Observer,
                         !.resizeObserver = Observer,
                         !.dom.observers = @ + 2,
                         !.handlers = Handlers,
                         !.dom.listeners = @ + 1]
    IN [updateDanmakuLines(c2, height) EXCEPT !.state = Hide]

\* duration in centiseconds; clientWidth / danmakuSpeed for a scrolling item
calDanmakuDuration(c, danmaku) ==
    IF c.videoElement = Null THEN 0
    ELSE IF danmaku.mode = Float THEN (world.clientWidth * 100) \div DanmakuSpeed
    ELSE IF danmaku.mode \in {Bottom, Top} THEN FixedDuration
    ELSE 0

RECURSIVE bsearch(_, _, _, _)
bsearch(d, time, left, right) ==
    IF left > right
    THEN (IF left < Len(d) THEN left ELSE NULL)
    ELSE LET mid     == (left + right) \div 2
             midTime == d[mid + 1].time
         IN IF midTime = time THEN mid
            ELSE IF midTime < time THEN bsearch(d, time, mid + 1, right)
            ELSE bsearch(d, time, left, mid - 1)

\* searchCurDanmaku(time, startIndex = 0); indices are 0-based as in the source
searchCurDanmaku(c, time) ==
    IF c.data = None \/ Len(Get(c.data)) = 0 THEN NULL
    ELSE bsearch(Get(c.data), time, 0, Len(Get(c.data)) - 1)

SetMin(S) == CHOOSE x \in S : \A y \in S : x <= y
SetMax(S) == CHOOSE x \in S : \A y \in S : x >= y

\* mutant of pickLine: a scrolling item takes the first Lane whatever the
\* trailing gap of its last item
pickLineIgnoresGap(c, mode) ==
    LET lines == c.danmakuLines
        n     == Len(lines)
    IN IF n = 0 THEN NULL
       ELSE IF mode = Bottom \/ mode = Top
       THEN LET free == {i \in 1..n : ~hasFixed(lines[i])}
            IN IF free = {} THEN NULL
               ELSE IF mode = Bottom THEN SetMax(free) - 1
               ELSE SetMin(free) - 1
       ELSE 0

\* mutant of pickLine: the Lanes are not reversed for a Bottom item
pickLineNotReversed(c, mode) ==
    LET lines == c.danmakuLines
        n     == Len(lines)
    IN IF n = 0 THEN NULL
       ELSE IF mode = Bottom \/ mode = Top
       THEN LET free == {i \in 1..n : ~hasFixed(lines[i])}
            IN IF free = {} THEN NULL ELSE SetMin(free) - 1
       ELSE LET usable ==
                  {i \in 1..n :
                      \/ Len(lines[i].queue) = 0
                      \/ lines[i].queue[Len(lines[i].queue)].margin >= c.lineMargin}
            IN IF usable = {} THEN NULL ELSE SetMin(usable) - 1

\* the 0-based index of the line picked for an item of this mode, or NULL
pickLine(c, mode) ==
    LET lines == c.danmakuLines
        n     == Len(lines)
    IN IF n = 0 THEN NULL
       ELSE IF mode = Bottom \/ mode = Top
       THEN LET free == {i \in 1..n : ~hasFixed(lines[i])}
            IN IF free = {} THEN NULL
               ELSE IF mode = Bottom THEN SetMax(free) - 1
               ELSE SetMin(free) - 1
       ELSE LET usable ==
                  {i \in 1..n :
                      \/ Len(lines[i].queue) = 0
                      \/ lines[i].queue[Len(lines[i].queue)].margin >= c.lineMargin}
            IN IF usable = {} THEN NULL ELSE SetMin(usable) - 1

\* mutant of activate: the annotation is not added to the registry
activateUnregistered(c, idx, margin) ==
    LET danmaku   == Get(c.data)[idx + 1]
        c1        == [c EXCEPT !.nextDanmakuIndex = idx + 1]
        lineIndex == pickLine(c1, danmaku.mode)
        item      == DanmakuItem(danmaku, margin)
    IN IF lineIndex = NULL THEN c1
       ELSE [c1 EXCEPT
               !.dom.styleSheets = IF danmaku.mode = Float THEN TRUE ELSE @,
               !.danmakuLines[lineIndex + 1] =
                   IF danmaku.mode = Float
                   THEN [@ EXCEPT !.queue = Append(@, item)]
                   ELSE [@ EXCEPT !.fixedItem = Some(item)]]

\* the body of loadDanmaku's loop after the tolerance check: activate data[idx]
activate(c, idx, margin) ==
    LET danmaku   == Get(c.data)[idx + 1]
        c1        == [c EXCEPT !.nextDanmakuIndex = idx + 1]
        lineIndex == pickLine(c1, danmaku.mode)
        item      == DanmakuItem(danmaku, margin)
    IN IF lineIndex = NULL THEN c1
       ELSE [c1 EXCEPT
               !.activeDanmaku = @ \cup {danmaku},
               !.dom.styleSheets = IF danmaku.mode = Float THEN TRUE ELSE @,
               !.danmakuLines[lineIndex + 1] =
                   IF danmaku.mode = Float
                   THEN [@ EXCEPT !.queue = Append(@, item)]
                   ELSE [@ EXCEPT !.fixedItem = Some(item)]]

RECURSIVE finishedPrefix(_)
finishedPrefix(queue) ==
    IF queue = <<>> THEN 0
    ELSE IF Head(queue).playState = "finished"
         THEN 1 + finishedPrefix(Tail(queue))
         ELSE 0

fixedExpired(c, line, now) ==
    /\ hasFixed(line)
    /\ now - Get(line.fixedItem).danmaku.time
          >= calDanmakuDuration(c, Get(line.fixedItem).danmaku)

\* mutant of cleanupLine: every finished item is removed, wherever it is
cleanupLineAnywhere(c, line, now) ==
    [queue     |-> SelectSeq(line.queue, LAMBDA item : item.playState # "finished"),
     fixedItem |-> IF fixedExpired(c, line, now) THEN None ELSE line.fixedItem]

cleanupLine(c, line, now) ==
    [queue     |-> SubSeq(line.queue, finishedPrefix(line.queue) + 1, Len(line.queue)),
     fixedItem |-> IF fixedExpired(c, line, now) THEN None ELSE line.fixedItem]

\* the annotations cleanupDanmaku deletes from _activeDanmaku
cleanupRemoved(c, now) ==
    UNION { {c.danmakuLines[i].queue[j].danmaku :
                j \in 1..finishedPrefix(c.danmakuLines[i].queue)}
            \cup (IF fixedExpired(c, c.danmakuLines[i], now)
                  THEN {Get(c.danmakuLines[i].fixedItem).danmaku} ELSE {})
          : i \in DOMAIN c.danmakuLines }

cleanupDanmaku(c, now) ==
    IF ~c.isVisible \/ c.videoElement = Null THEN c
    ELSE [c EXCEPT
            !.activeDanmaku = @ \ cleanupRemoved(c, now),
            !.danmakuLines =
                [i \in DOMAIN c.danmakuLines |-> cleanupLine(c, c.danmakuLines[i], now)]]

\* load(), the synchronous part
load(c) ==
    IF c.state \notin {Empty, Hide} THEN hide(c) ELSE c

\* _load: the promise resolves only for status 200 and response code 0
xhrResolves(r) == r.status = 200 /\ r.code = 0

\* data.map(tuple => new Danmaku(...)).sort(...): None when a constructor throws
convert(raw, gen) ==
    IF \A i \in DOMAIN raw : validMode(raw[i].mode)
    THEN Some(sortByTime([i \in DOMAIN raw |-> Danmaku(gen, raw[i])]))
    ELSE None

\* mutant of loadThen: the collection is filled tuple by tuple, so a throwing
\* constructor leaves the tuples converted before it installed
loadThenPartial(c, previousState, raw, gen, paused) ==
    LET valid == {n \in 0..Len(raw) : \A i \in 1..n : validMode(raw[i].mode)}
        n     == SetMax(valid)
    IN IF n < Len(raw)
       THEN [c EXCEPT !.data = Some([i \in 1..n |-> Danmaku(gen, raw[i])])]
       ELSE LET c1 == [c EXCEPT !.data = convert(raw, gen)]
            IN IF previousState = Playing
               THEN [show(c1, paused) EXCEPT !.state = Playing]
               ELSE IF previousState = Paused
               THEN [pause(show(c1, paused)) EXCEPT !.state = Paused]
               ELSE c1

\* mutant of loadThen: the previous state is not restored
loadThenNoRestore(c, previousState, raw, gen, paused) ==
    LET converted == convert(raw, gen)
    IN IF converted = None THEN c ELSE [c EXCEPT !.data = converted]

\* load()'s .then callback; a decoder that throws ends it as a throwing Danmaku
\* constructor does (BilibiliXMLParser.parse never returns a non-zero code)
loadThen(c, previousState, raw, gen, paused) ==
    LET converted == convert(raw, gen)
    IN IF converted = None THEN c
       ELSE LET c1 == [c EXCEPT !.data = converted]
            IN IF previousState = Playing
               THEN [show(c1, paused) EXCEPT !.state = Playing]
               ELSE IF previousState = Paused
               THEN [pause(show(c1, paused)) EXCEPT !.state = Paused]
               ELSE c1

-----------------------------------------------------------------------------
InitIn(w) ==
    /\ world = w
    /\ cb = Constructor
    /\ videoPaused \in BOOLEAN
    /\ videoTime \in w.times /\ \A t \in w.times : videoTime <= t
    /\ clientHeight \in w.heights
    /\ pending = [s \in CreepyBirdState |-> 0]
    /\ dataGen = 0
    /\ loadCount = 0
    /\ pc = "idle"
    /\ index = NULL
    /\ currentTime = 0
    /\ lastOp = [op |-> "new", from |-> Empty, cursor |-> NULL, active |-> {}, lanes |-> 0]
    /\ dropped = {}
    /\ deferred = NULL

Init == InitIn(LifecycleWorld)

\* the operation, the state it was called in (for the settlement of a load: the
\* state load() was called in), and the cursor, the registry and the number of
\* Lanes it found; an
\* operation that leaves the cursor unset starts a new forward pass
Did(name, state) ==
    /\ lastOp' = [op |-> name, from |-> state,
                  cursor |-> cb.nextDanmakuIndex, active |-> cb.activeDanmaku,
                  lanes |-> Len(cb.danmakuLines)]
    /\ dropped' = IF cb'.nextDanmakuIndex = NULL THEN {} ELSE dropped
    /\ deferred' = IF name \in {"tick", "env", "resize"} THEN deferred ELSE NULL
Op(name) == Did(name, cb.state)
Env == UNCHANGED <<videoPaused, videoTime, clientHeight, pending, loadCount, dataGen, world>>
NoTick == UNCHANGED <<pc, index, currentTime>>
Idle == pc = "idle"

(* Public operations *)

AttachToVideo ==
    /\ Idle
    /\ cb' = attachToVideo(cb, clientHeight)
    /\ Op("attachToVideo") /\ Env /\ NoTick

Detach ==
    /\ Idle
    /\ cb' = detach(cb)
    /\ Op("detach") /\ Env /\ NoTick

Show ==
    /\ Idle
    /\ cb' = show(cb, videoPaused)
    /\ Op("show") /\ Env /\ NoTick

HideOverlay ==
    /\ Idle
    /\ cb' = hide(cb)
    /\ Op("hide") /\ Env /\ NoTick

Pause ==
    /\ Idle
    /\ cb' = pause(cb)
    /\ Op("pause") /\ Env /\ NoTick

Resume ==
    /\ Idle
    /\ cb' = resume(cb)
    /\ Op("resume") /\ Env /\ NoTick

Seek ==
    /\ Idle
    /\ cb' = seek(cb)
    /\ Op("seek") /\ Env /\ NoTick

SetFontSize ==
    /\ Idle
    /\ \E size \in world.fontSizes : cb' = setFontSize(cb, size)
    /\ Op("setFontSize") /\ Env /\ NoTick

SetLineMargin ==
    /\ Idle
    /\ \E margin \in world.lineMargins : cb' = setLineMargin(cb, margin)
    /\ Op("setLineMargin") /\ Env /\ NoTick

\* load(url): remembers the state, hides, and sends the request
Load ==
    /\ Idle
    /\ loadCount < world.maxLoads
    /\ cb' = load(cb)
    /\ loadCount' = loadCount + 1
    /\ pending' = [pending EXCEPT ![cb.state] = @ + 1]
    /\ Op("load")
    /\ UNCHANGED <<videoPaused, videoTime, clientHeight, dataGen, world>> /\ NoTick

\* the request ends with a response the promise resolves for: .then runs
LoadFulfilled ==
    /\ Idle
    /\ \E previousState \in CreepyBirdState, r \in world.responses :
          /\ pending[previousState] > 0
          /\ xhrResolves(r)
          /\ cb' = loadThen(cb, previousState, r.data, dataGen + 1, videoPaused)
          /\ pending' = [pending EXCEPT ![previousState] = @ - 1]
          /\ dataGen' = IF convert(r.data, dataGen + 1) = None THEN dataGen ELSE dataGen + 1
          /\ Did(IF convert(r.data, dataGen + 1) = None THEN "loadThrew" ELSE "loadDone",
                 previousState)
    /\ UNCHANGED <<videoPaused, videoTime, clientHeight, loadCount, world>> /\ NoTick

\* the request fails (onerror, status # 200, code # 0): .then never runs
LoadRejected ==
    /\ Idle
    /\ \E previousState \in CreepyBirdState, r \in world.responses :
          /\ pending[previousState] > 0
          /\ ~xhrResolves(r)
          /\ pending' = [pending EXCEPT ![previousState] = @ - 1]
          /\ UNCHANGED cb
          /\ Did("loadRejected", previousState)
    /\ UNCHANGED <<videoPaused, videoTime, clientHeight, loadCount, dataGen, world>> /\ NoTick

-----------------------------------------------------------------------------
(* The video element and the browser *)

handlersAdded == cb.videoElement # Null

\* the video starts playing: 'play' event, handler calls resume()
VideoPlay ==
    /\ Idle
    /\ videoPaused
    /\ videoPaused' = FALSE
    /\ cb' = IF handlersAdded THEN resume(cb) ELSE cb
    /\ Op("videoPlay")
    /\ UNCHANGED <<videoTime, clientHeight, pending, loadCount, dataGen, world>> /\ NoTick

\* the video pauses: 'pause' event, handler calls pause()
VideoPause ==
    /\ Idle
    /\ ~videoPaused
    /\ videoPaused' = TRUE
    /\ cb' = IF handlersAdded THEN pause(cb) ELSE cb
    /\ Op("videoPause")
    /\ UNCHANGED <<videoTime, clientHeight, pending, loadCount, dataGen, world>> /\ NoTick

\* the user seeks: 'seeking' event, handler calls seek(currentTime)
VideoSeeking ==
    /\ Idle
    /\ \E t \in world.times : videoTime' = t
    /\ cb' = IF handlersAdded THEN seek(cb) ELSE cb
    /\ Op("videoSeeking")
    /\ UNCHANGED <<videoPaused, clientHeight, pending, loadCount, dataGen, world>> /\ NoTick

\* playback advances the clock
VideoTimeAdvance ==
    /\ Idle
    /\ ~videoPaused
    /\ \E t \in world.times : t > videoTime /\ videoTime' = t
    /\ UNCHANGED <<cb, videoPaused, clientHeight, pending, loadCount, dataGen, world>> /\ NoTick
    /\ Op("env")

\* the video is resized or scrolled: ResizeObserver / IntersectionObserver
\* call updatePosition, which calls updateDanmakuLines
VideoResize ==
    /\ Idle
    /\ \E h \in world.heights :
          /\ clientHeight' = h
          /\ cb' = IF cb.videoElement # Null THEN updateDanmakuLines(cb, h) ELSE cb
    /\ Op("resize")
    /\ UNCHANGED <<videoPaused, videoTime, pending, loadCount, dataGen, world>> /\ NoTick

nextMargin(m) ==
    LET ms == world.margins
    IN IF \E i \in 1..(Len(ms) - 1) : ms[i] = m
       THEN ms[(CHOOSE i \in 1..(Len(ms) - 1) : ms[i] = m) + 1]
       ELSE m

\* running animations move every scrolling item one step to the left
AnimationFrame ==
    /\ Idle
    /\ \E i \in DOMAIN cb.danmakuLines : \E j \in DOMAIN cb.danmakuLines[i].queue :
          /\ cb.danmakuLines[i].queue[j].playState = "running"
          /\ cb.danmakuLines[i].queue[j].margin # nextMargin(cb.danmakuLines[i].queue[j].margin)
    /\ cb' = [cb EXCEPT !.danmakuLines =
                [i \in DOMAIN cb.danmakuLines |->
                    [cb.danmakuLines[i] EXCEPT !.queue =
                        [j \in DOMAIN cb.danmakuLines[i].queue |->
                            IF cb.danmakuLines[i].queue[j].playState = "running"
                            THEN [cb.danmakuLines[i].queue[j] EXCEPT !.margin = nextMargin(@)]
                            ELSE cb.danmakuLines[i].queue[j]]]]]
    /\ Op("env") /\ Env /\ NoTick

\* a running animation reaches its end
AnimationFinish ==
    /\ Idle
    /\ \E i \in DOMAIN cb.danmakuLines : \E j \in DOMAIN cb.danmakuLines[i].queue :
          /\ cb.danmakuLines[i].queue[j].playState = "running"
          /\ cb.danmakuLines[i].queue[j].margin = world.margins[Len(world.margins)]
          /\ cb' = [cb EXCEPT !.danmakuLines[i].queue[j].playState = "finished"]
    /\ Op("env") /\ Env /\ NoTick

-----------------------------------------------------------------------------
(* The interval callback: loadDanmaku(currentTime); cleanupDanmaku() *)

\* setInterval fires
Tick ==
    /\ Idle
    /\ cb.intervalId # Null
    /\ Env
    /\ IF cb.videoElement = Null
       THEN UNCHANGED <<cb, pc, index, currentTime>>
       ELSE IF cb.data = None \/ ~cb.isVisible
       THEN /\ cb' = cleanupDanmaku(cb, videoTime)
            /\ UNCHANGED <<pc, index, currentTime>>
       ELSE /\ pc' = "head"
            /\ currentTime' = videoTime
            /\ UNCHANGED <<cb, index>>
    /\ Op("tick")

\* lines 495-508: pick the candidate index, or break
LoopHead ==
    /\ pc = "head"
    /\ Env /\ UNCHANGED <<lastOp, currentTime, dropped>>
    /\ deferred' = NULL
    /\ IF cb.nextDanmakuIndex # NULL /\ cb.nextDanmakuIndex < Len(Get(cb.data))
       THEN /\ index' = cb.nextDanmakuIndex
            /\ pc' = "body"
            /\ UNCHANGED cb
       ELSE IF searchCurDanmaku(cb, currentTime) = NULL
       THEN /\ cb' = cleanupDanmaku(cb, videoTime)
            /\ pc' = "idle"
            /\ index' = NULL
       ELSE /\ index' = searchCurDanmaku(cb, currentTime)
            /\ pc' = "body"
            /\ UNCHANGED cb

Abs(x) == IF x < 0 THEN -x ELSE x

\* lines 510-600: skip an active candidate, break on the tolerance, or activate
LoopBody ==
    /\ pc = "body"
    /\ Env /\ UNCHANGED <<lastOp, currentTime>>
    /\ LET danmaku == Get(cb.data)[index + 1]
       IN IF danmaku \in cb.activeDanmaku
          THEN /\ cb' = [cb EXCEPT !.nextDanmakuIndex = index + 1]
               /\ pc' = "head"
               /\ UNCHANGED <<index, dropped, deferred>>
          ELSE IF Abs(danmaku.time - currentTime) > Tolerance
          THEN /\ cb' = cleanupDanmaku(cb, videoTime)
               /\ pc' = "idle"
               /\ index' = NULL
               /\ deferred' = index
               /\ UNCHANGED dropped
          ELSE /\ cb' = activate(cb, index, world.margins[1])
               /\ dropped' = IF danmaku \in cb'.activeDanmaku
                             THEN dropped ELSE dropped \cup {danmaku}
               /\ pc' = "head"
               /\ UNCHANGED <<index, deferred>>

-----------------------------------------------------------------------------
Next ==
    \/ AttachToVideo \/ Detach \/ Show \/ HideOverlay \/ Pause \/ Resume
    \/ Seek \/ SetFontSize \/ SetLineMargin
    \/ Load \/ LoadFulfilled \/ LoadRejected
    \/ VideoPlay \/ VideoPause \/ VideoSeeking \/ VideoTimeAdvance
    \/ VideoResize \/ AnimationFrame \/ AnimationFinish
    \/ Tick \/ LoopHead \/ LoopBody

Spec == Init /\ [][Next]_vars

ResizeSpec == InitIn(ResizeWorld) /\ [][Next]_vars

\* JavaScript runs a handler to completion: once the interval callback has
\* started, its loop keeps taking steps.
TickSpec ==
    /\ InitIn(TickWorld)
    /\ [][Next]_vars
    /\ WF_vars(LoopHead)
    /\ WF_vars(LoopBody)

SearchSpec == InitIn(SearchWorld) /\ [][Next]_vars

ToleranceSpec == InitIn(ToleranceWorld) /\ [][Next]_vars

LaneSpec == InitIn(LaneWorld) /\ [][Next]_vars

DeferSpec == InitIn(DeferWorld) /\ [][Next]_vars

GeometrySpec == InitIn(GeometryWorld) /\ [][Next]_vars

-----------------------------------------------------------------------------
(* Claims *)

\* the annotations of the Visible Items the Lanes hold
laneDanmaku(c) ==
    UNION { {c.danmakuLines[i].queue[j].danmaku : j \in DOMAIN c.danmakuLines[i].queue}
            \cup (IF hasFixed(c.danmakuLines[i])
                  THEN {Get(c.danmakuLines[i].fixedItem).danmaku} ELSE {})
          : i \in DOMAIN c.danmakuLines }

\* C1: between operations the Active-Item Registry holds exactly the
\* annotations of the Visible Items held by the Lanes.
C1_RegistryMirrorsLanes ==
    pc = "idle" => cb.activeDanmaku = laneDanmaku(cb)

\* C2: every run of the tick's processing loop terminates: once the interval
\* callback has entered the loop it eventually leaves it.
C2_TickLoopTerminates ==
    (pc # "idle") ~> (pc = "idle")

\* C3: whenever the lifecycle state is Playing, the tick timer is armed.
C3_PlayingImpliesArmed ==
    cb.state = Playing => cb.intervalId # Null

\* C4: the tick timer is armed only in the Playing state.
C4_ArmedOnlyInPlaying ==
    cb.intervalId # Null => cb.state = Playing

\* C4 witness: pause(), hide(), detach() or load() was called in Playing with
\* the timer armed, and the timer is cancelled.
C4_Witness ==
    /\ lastOp.op \in {"pause", "hide", "detach", "load"}
    /\ lastOp.from = Playing
    /\ cb.state # Playing
    /\ cb.intervalId = Null
    /\ cb.activeDanmaku # {}

\* C5: detach() leaves the engine Empty, with the timer disarmed, the cursor
\* unset, the Lane Set empty and the Active-Item Registry empty.
C5_DetachTearsDown ==
    lastOp.op = "detach" =>
        /\ cb.state = Empty
        /\ cb.intervalId = Null
        /\ cb.nextDanmakuIndex = NULL
        /\ cb.danmakuLines = <<>>
        /\ cb.activeDanmaku = {}

\* C6: when a load started in Playing or Paused fails, the lifecycle state
\* after the failure is the state the engine was in before load() was called.
C6_FailedLoadRestoresState ==
    (lastOp.op \in {"loadRejected", "loadThrew"} /\ lastOp.from \in {Playing, Paused})
        => cb.state = lastOp.from

\* C7: when a load fails (the request is rejected, or a tuple has an invalid
\* mode), the Annotation Collection is exactly what it was before.
C7_FailedLoadKeepsData ==
    [][lastOp'.op \in {"loadRejected", "loadThrew"} => cb'.data = cb.data]_vars

\* C7 witness: a payload with an invalid mode arrived while a collection was
\* loaded.
C7_Witness ==
    /\ lastOp.op = "loadThrew"
    /\ cb.data # None

\* C8: load() called in Playing or Paused moves the engine to Hidden at once;
\* when the load completes successfully the engine is back in the state it had
\* before the load, a Hidden overlay is shown again, and a restored Paused
\* state has its timer disarmed.
C8_LoadHidesThenRestores ==
    [][ /\ (lastOp'.op = "load" /\ cb.state \in {Playing, Paused})
            => cb'.state = Hide
        /\ (lastOp'.op = "loadDone" /\ lastOp'.from \in {Playing, Paused})
            => /\ cb'.state = lastOp'.from
               /\ cb.state = Hide => cb'.isVisible
               /\ lastOp'.from = Paused => cb'.intervalId = Null ]_vars

\* C8 witness: a load started in Playing completed while the engine was still
\* Hidden and the video was paused, and the engine is Playing again.
C8_Witness ==
    /\ lastOp.op = "loadDone"
    /\ lastOp.from = Playing
    /\ videoPaused
    /\ cb.videoElement # Null
    /\ cb.state = Playing

\* C9: the completion of a load that was in flight when detach() was called
\* changes nothing: the engine stays Empty and every field keeps its value.
C9_DetachDiscardsLoad ==
    [][ (/\ lastOp'.op \in {"loadDone", "loadThrew", "loadRejected"}
         /\ lastOp'.from # Empty
         /\ cb.state = Empty)
        => cb' = cb ]_vars

\* C10: pause() outside Playing, resume() outside Paused, show() outside
\* Hidden and hide() in Empty change no field of the engine.
C10_IllegalTransitionsAreNoOps ==
    [][ /\ (lastOp'.op \in {"pause", "videoPause"} /\ cb.state # Playing) => cb' = cb
        /\ (lastOp'.op \in {"resume", "videoPlay"} /\ cb.state # Paused) => cb' = cb
        /\ (lastOp'.op = "show" /\ cb.state # Hide) => cb' = cb
        /\ (lastOp'.op = "hide" /\ cb.state = Empty) => cb' = cb ]_vars

\* C10 witness: pause() was called while Hidden, with items on the Lanes.
C10_Witness ==
    /\ lastOp.op = "pause"
    /\ lastOp.from = Hide
    /\ cb.state = Hide
    /\ cb.activeDanmaku # {}

\* C11: show() called in Hidden ends in Paused with the timer disarmed when the
\* attached video reports itself paused, and otherwise in Playing with the
\* timer armed; it ends in no other state.
C11_ShowEndsPlayingOrPaused ==
    (lastOp.op = "show" /\ lastOp.from = Hide) =>
        IF cb.videoElement # Null /\ videoPaused
        THEN cb.state = Paused /\ cb.intervalId = Null
        ELSE cb.state = Playing /\ cb.intervalId # Null

\* C11 witness: show() was called in Hidden while the video was paused, with
\* items on the Lanes.
C11_Witness ==
    /\ lastOp.op = "show"
    /\ lastOp.from = Hide
    /\ videoPaused
    /\ cb.state = Paused
    /\ cb.intervalId = Null
    /\ cb.activeDanmaku # {}

\* the times searchCurDanmaku is asked for: the times the video reports, and
\* the times just before, at and just after every annotation
queryTimes(c) ==
    world.times \cup
    (IF c.data = None THEN {}
     ELSE {Get(c.data)[i].time + e : i \in DOMAIN Get(c.data), e \in {-5, 0, 5}})

\* the leftmost index whose time is >= the query time, or none
leftmostAtOrAfter(c, time) ==
    IF c.data = None THEN NULL
    ELSE LET d == Get(c.data)
             S == {i \in 0..(Len(d) - 1) : d[i + 1].time >= time}
         IN IF S = {} THEN NULL ELSE SetMin(S)

\* C12: for every time-sorted collection, duplicates included, and every query
\* time, searchCurDanmaku returns the leftmost index whose time is >= the
\* query time, none when every time is below it, and none for an empty or
\* unloaded collection.
C12_SearchReturnsLeftmost ==
    \A time \in queryTimes(cb) :
        searchCurDanmaku(cb, time) = leftmostAtOrAfter(cb, time)

\* the annotations within the tolerance of the tick's playback time
dueDanmaku(c, time) ==
    IF c.data = None THEN {}
    ELSE {Get(c.data)[i] : i \in {j \in DOMAIN Get(c.data) :
                                      Abs(Get(c.data)[j].time - time) <= Tolerance}}

\* the 1-based index of the Lane that holds the annotation's Visible Item
laneOf(c, danmaku) ==
    CHOOSE i \in DOMAIN c.danmakuLines :
        \/ \E j \in DOMAIN c.danmakuLines[i].queue :
              c.danmakuLines[i].queue[j].danmaku = danmaku
        \/ c.danmakuLines[i].fixedItem = Some(DanmakuItem(danmaku, world.margins[1]))

\* C13: when a tick that found no cursor has ended, every annotation within
\* 0.1 s of its playback time, on either side, that was not active before is
\* active unless no Lane is free for it, and the annotations it activated are
\* in distinct Lanes (for [Scroll 1.0, Scroll 1.05] and a tick at 1.02: both
\* are active, in two Lanes).
C13_TickActivatesAllDue ==
    (pc = "idle" /\ lastOp.op = "tick" /\ lastOp.cursor = NULL /\ cb.isVisible) =>
        LET due == dueDanmaku(cb, currentTime) \ lastOp.active
        IN /\ \A d \in due : d \in cb.activeDanmaku \/ pickLine(cb, d.mode) = NULL
           /\ \A d, e \in due \cap cb.activeDanmaku :
                  d # e => laneOf(cb, d) # laneOf(cb, e)

\* C14: an annotation whose activation failed because no Lane was free is not
\* a candidate for activation again, in a later iteration or a later tick,
\* until the cursor is unset (seek, pause, hide, detach).
C14_DroppedIsNotRetried ==
    (/\ pc = "body"
     /\ Get(cb.data)[index + 1] \notin cb.activeDanmaku
     /\ Abs(Get(cb.data)[index + 1].time - currentTime) <= Tolerance)
        => Get(cb.data)[index + 1] \notin dropped

\* the loop is about to attempt the activation of its candidate
attempts(mode) ==
    /\ pc = "body"
    /\ Get(cb.data)[index + 1].mode = mode
    /\ Get(cb.data)[index + 1] \notin cb.activeDanmaku
    /\ Abs(Get(cb.data)[index + 1].time - currentTime) <= Tolerance

\* C15: when every Lane holds a fixed item and a Scroll annotation is due, its
\* activation fails: the registry and the Lanes stay as they are and the
\* cursor advances past the annotation.
C15_ScrollFailsWhenAllLanesFixed ==
    [][ (attempts(Float) /\ \A i \in DOMAIN cb.danmakuLines : hasFixed(cb.danmakuLines[i]))
        => /\ cb'.activeDanmaku = cb.activeDanmaku
           /\ cb'.danmakuLines = cb.danmakuLines
           /\ cb'.nextDanmakuIndex = index + 1 ]_vars

\* a Lane a scrolling item may enter: its queue is empty, or the gap between
\* its last item's trailing edge and the overlay's far edge is at least the
\* line margin
roomForScroll(c, i) ==
    \/ c.danmakuLines[i].queue = <<>>
    \/ c.danmakuLines[i].queue[Len(c.danmakuLines[i].queue)].margin >= c.lineMargin

\* C16: a Scroll annotation is only pushed onto a Lane whose queue is empty or
\* whose last item's trailing gap is >= the line margin at that moment, and
\* onto the lowest-index such Lane; no other Lane changes.
C16_ScrollTakesLowestLaneWithRoom ==
    [][ attempts(Float) =>
          \A i \in DOMAIN cb.danmakuLines :
              cb'.danmakuLines[i] # cb.danmakuLines[i] =>
                  /\ roomForScroll(cb, i)
                  /\ \A k \in 1..(i - 1) : ~roomForScroll(cb, k)
                  /\ cb'.danmakuLines[i] =
                        [cb.danmakuLines[i] EXCEPT !.queue =
                            Append(@, DanmakuItem(Get(cb.data)[index + 1], world.margins[1]))]
      ]_vars

\* C16 witness: the loop has just pushed a Scroll annotation onto the second
\* Lane, the last item of the first Lane being too close to the far edge.
C16_Witness ==
    /\ pc = "head"
    /\ index # NULL
    /\ Len(cb.danmakuLines) = 2
    /\ cb.danmakuLines[1].queue # <<>>
    /\ ~roomForScroll(cb, 1)
    /\ cb.danmakuLines[2].queue # <<>>
    /\ cb.danmakuLines[2].queue[Len(cb.danmakuLines[2].queue)].danmaku
          = Get(cb.data)[index + 1]

\* the Lanes (1-based) that hold no fixed item
freeOfFixed(c) == {i \in DOMAIN c.danmakuLines : ~hasFixed(c.danmakuLines[i])}

\* C17: a Bottom or Top annotation is only set as the fixed item of a Lane
\* that holds no fixed item at that moment: Top takes the lowest-index such
\* Lane, Bottom the highest-index one, no other Lane changes, and when every
\* Lane has a fixed item the activation fails (registry and Lanes unchanged).
C17_FixedTakesFreeLane ==
    [][ (attempts(Top) \/ attempts(Bottom)) =>
          IF freeOfFixed(cb) = {}
          THEN /\ cb'.danmakuLines = cb.danmakuLines
               /\ cb'.activeDanmaku = cb.activeDanmaku
          ELSE LET d == Get(cb.data)[index + 1]
                   i == IF d.mode = Top THEN SetMin(freeOfFixed(cb))
                                        ELSE SetMax(freeOfFixed(cb))
               IN cb'.danmakuLines =
                     [cb.danmakuLines EXCEPT ![i].fixedItem =
                         Some(DanmakuItem(d, world.margins[1]))]
      ]_vars

\* C17 witness: a Top annotation has just failed to activate, every Lane
\* holding a fixed item, the Bottom one in the last Lane.
C17_Witness ==
    /\ pc = "head"
    /\ index # NULL
    /\ Get(cb.data)[index + 1].mode = Top
    /\ Get(cb.data)[index + 1] \in dropped
    /\ Len(cb.danmakuLines) = 2
    /\ freeOfFixed(cb) = {}
    /\ Get(cb.danmakuLines[2].fixedItem).danmaku.mode = Bottom
    /\ Get(cb.danmakuLines[1].fixedItem).danmaku.mode = Top

\* the Visible Items of every Lane: the annotations of its queue, in order,
\* and the annotation of its fixed item
laneContents(c) ==
    [i \in DOMAIN c.danmakuLines |->
        [queue     |-> [j \in DOMAIN c.danmakuLines[i].queue |->
                           c.danmakuLines[i].queue[j].danmaku],
         fixedItem |-> IF hasFixed(c.danmakuLines[i])
                       THEN Some(Get(c.danmakuLines[i].fixedItem).danmaku)
                       ELSE None]]

\* C18: pause() and resume() (called directly or by the video's pause and play
\* events) create and destroy no Visible Item: each leaves the Active-Item
\* Registry and every Lane's queue and fixed item as they were, and so does
\* pause() followed by resume().
C18_PauseResumeKeepItems ==
    [][ lastOp'.op \in {"pause", "resume", "videoPause", "videoPlay"} =>
          /\ cb'.activeDanmaku = cb.activeDanmaku
          /\ laneContents(cb') = laneContents(cb)
          /\ resume(pause(cb)).activeDanmaku = cb.activeDanmaku
          /\ laneContents(resume(pause(cb))) = laneContents(cb) ]_vars

\* C18 witness: resume() was called in Paused and the engine is Playing again,
\* with a scrolling item and a fixed item on the Lanes.
C18_Witness ==
    /\ lastOp.op = "resume"
    /\ lastOp.from = Paused
    /\ cb.state = Playing
    /\ cb.activeDanmaku # {}
    /\ \E i \in DOMAIN cb.danmakuLines : cb.danmakuLines[i].queue # <<>>
    /\ \E i \in DOMAIN cb.danmakuLines : hasFixed(cb.danmakuLines[i])

\* C19: seek() clears the cursor in every state (called directly or by the
\* video's seeking event); an unset cursor stays unset until a tick's loop
\* runs; and a tick that finds the cursor unset reads the playback time and
\* takes its first candidate from a binary search at that time.
C19_SeekForcesSearch ==
    [][ /\ (lastOp'.op = "seek" \/ (lastOp'.op = "videoSeeking" /\ handlersAdded))
            => cb'.nextDanmakuIndex = NULL
        /\ (pc = "idle" /\ cb.nextDanmakuIndex = NULL)
            => cb'.nextDanmakuIndex = NULL
        /\ (pc = "idle" /\ pc' = "head") => currentTime' = videoTime
        /\ (pc = "head" /\ index = NULL /\ cb.nextDanmakuIndex = NULL)
            => IF searchCurDanmaku(cb, currentTime) = NULL
               THEN pc' = "idle"
               ELSE pc' = "body" /\ index' = searchCurDanmaku(cb, currentTime)
      ]_vars

\* C19 witness: seek() was called while a cursor was cached, and the cursor is
\* unset.
C19_Witness ==
    /\ lastOp.op = "seek"
    /\ lastOp.cursor # NULL
    /\ cb.nextDanmakuIndex = NULL
    /\ cb.state = Playing

\* C20: at most one overlay, one pair of observers and one set of playback
\* listeners exist at any time, and once attachToVideo() has returned nothing
\* made under an earlier attachment remains on the page: the only overlay,
\* observers and listeners are the new ones and document.head holds no
\* keyframes style sheet.
C20_AttachLeavesNoEarlierHandle ==
    /\ cb.dom.overlays <= 1
    /\ cb.dom.observers <= 2
    /\ cb.dom.listeners <= 1
    /\ lastOp.op = "attachToVideo" =>
          /\ cb.dom.overlays = 1 /\ cb.dom.observers = 2 /\ cb.dom.listeners = 1
          /\ cb.danmakuLines = updateDanmakuLines(
                                   [cb EXCEPT !.danmakuLines = <<>>], clientHeight).danmakuLines
          /\ cb.activeDanmaku = {}
          /\ ~cb.dom.styleSheets

\* the loop's candidate is not active and is more than 0.1 s from the
\* playback time
outOfTolerance ==
    /\ pc = "body"
    /\ Get(cb.data)[index + 1] \notin cb.activeDanmaku
    /\ Abs(Get(cb.data)[index + 1].time - currentTime) > Tolerance

\* C21: a not-yet-active candidate more than 0.1 s from the playback time
\* stops the loop for this tick, is not activated, and leaves the cursor where
\* it was; every other iteration moves the cursor past its candidate; and the
\* next tick, no operation having been called in between, evaluates the same
\* candidate first.
C21_OutOfToleranceDefers ==
    [][ /\ outOfTolerance =>
              /\ pc' = "idle"
              /\ Get(cb.data)[index + 1] \notin cb'.activeDanmaku
              /\ cb'.nextDanmakuIndex = cb.nextDanmakuIndex
        /\ (pc = "body" /\ ~outOfTolerance) => cb'.nextDanmakuIndex = index + 1
        /\ (pc = "head" /\ index = NULL /\ deferred # NULL) =>
              pc' = "body" /\ index' = deferred
      ]_vars

\* a step in which cleanupDanmaku runs past its guard: the loop's exit, or an
\* interval callback whose loadDanmaku returned at once
cleanupPass ==
    /\ cb.videoElement # Null
    /\ cb.isVisible
    /\ \/ pc # "idle" /\ pc' = "idle"
       \/ pc = "idle" /\ pc' = "idle" /\ lastOp'.op = "tick"

\* the length of the longest front part of the queue made of finished items
finishedFront(queue) ==
    SetMax({n \in 0..Len(queue) : \A j \in 1..n : queue[j].playState = "finished"})

\* C22: a cleanup pass removes from each Lane's queue exactly the longest
\* front part made of finished items, so nothing behind an unfinished item;
\* it removes a fixed item only if its display time is over; and the
\* annotation of every item it removes is no longer in the registry, while no
\* other annotation leaves the registry.
C22_CleanupRemovesFinishedFront ==
    [][ cleanupPass =>
          /\ DOMAIN cb'.danmakuLines = DOMAIN cb.danmakuLines
          /\ \A i \in DOMAIN cb.danmakuLines :
                LET line == cb.danmakuLines[i]
                    n    == finishedFront(line.queue)
                IN /\ cb'.danmakuLines[i].queue = SubSeq(line.queue, n + 1, Len(line.queue))
                   /\ \A j \in 1..n : line.queue[j].danmaku \notin cb'.activeDanmaku
                   /\ cb'.danmakuLines[i].fixedItem \in {line.fixedItem, None}
                   /\ cb'.danmakuLines[i].fixedItem # line.fixedItem =>
                         /\ videoTime - Get(line.fixedItem).danmaku.time >= FixedDuration
                         /\ Get(line.fixedItem).danmaku \notin cb'.activeDanmaku
          /\ cb.activeDanmaku \ cb'.activeDanmaku \subseteq laneDanmaku(cb) \ laneDanmaku(cb')
      ]_vars

\* C22 witness: a tick has ended whose cleanup removed a scrolling item and a
\* fixed item from the registry and left an unfinished item in a queue.
C22_Witness ==
    /\ pc = "idle"
    /\ lastOp.op = "tick"
    /\ \E d \in lastOp.active \ cb.activeDanmaku : d.mode = Float
    /\ \E d \in lastOp.active \ cb.activeDanmaku : d.mode # Float
    /\ \E i \in DOMAIN cb.danmakuLines :
          /\ cb.danmakuLines[i].queue # <<>>
          /\ cb.danmakuLines[i].queue[1].playState # "finished"

\* ceil(fontSize x lineSpacing)
ceilLineHeight(fontSize) ==
    CHOOSE k \in 0..(2 * fontSize) :
        /\ 10 * k >= fontSize * LineSpacingTenths
        /\ 10 * (k - 1) < fontSize * LineSpacingTenths

\* C23: after a resize of the Lane Set the Lane count is
\* floor(height / ceil(fontSize x lineSpacing)); every Lane that survives
\* keeps its index, queue and fixed item, so a shrink removes only trailing
\* Lanes; every Lane a growth adds is empty; nothing else of the engine
\* changes; and running it again with the same geometry changes nothing.
C23_ResizeKeepsLeadingLanes ==
    [][ /\ (lastOp'.op = "resize" /\ cb.videoElement # Null) =>
              LET n == clientHeight' \div ceilLineHeight(cb.fontSize)
              IN /\ Len(cb'.danmakuLines) = n
                 /\ \A i \in 1..n :
                       cb'.danmakuLines[i] =
                           IF i <= Len(cb.danmakuLines) THEN cb.danmakuLines[i]
                           ELSE DanmakuLine
                 /\ [cb' EXCEPT !.danmakuLines = cb.danmakuLines] = cb
                 /\ updateDanmakuLines(cb', clientHeight') = cb'
        /\ lastOp'.op = "attachToVideo" =>
              /\ Len(cb'.danmakuLines) = clientHeight \div ceilLineHeight(cb.fontSize)
              /\ updateDanmakuLines(cb', clientHeight) = cb'
      ]_vars

\* C23 witness: a resize has shrunk the Lane Set from two Lanes to one, and
\* the surviving Lane holds an item.
C23_Witness ==
    /\ lastOp.op = "resize"
    /\ lastOp.lanes = 2
    /\ Len(cb.danmakuLines) = 1
    /\ cb.danmakuLines[1].queue # <<>>

\* C24: between operations, if the tick timer is not armed the cursor is
\* unset; and the cursor is unset after every seek(), pause(), hide() and
\* detach().
C24_DisarmedImpliesNoCursor ==
    pc = "idle" =>
        /\ cb.intervalId = Null => cb.nextDanmakuIndex = NULL
        /\ lastOp.op \in {"seek", "pause", "hide", "detach"} => cb.nextDanmakuIndex = NULL

\* C24 witness: pause(), hide() or detach() was called while a cursor was
\* cached, and the timer is disarmed.
C24_Witness ==
    /\ lastOp.op \in {"pause", "hide", "detach"}
    /\ lastOp.cursor # NULL
    /\ cb.intervalId = Null
    /\ cb.nextDanmakuIndex = NULL

\* the places of the Lanes that hold a Visible Item of this annotation
placesOf(c, danmaku) ==
    UNION {{<<i, j>> : j \in {k \in DOMAIN c.danmakuLines[i].queue :
                                   c.danmakuLines[i].queue[k].danmaku = danmaku}}
             \cup (IF /\ hasFixed(c.danmakuLines[i])
                      /\ Get(c.danmakuLines[i].fixedItem).danmaku = danmaku
                   THEN {<<i, 0>>} ELSE {})
           : i \in DOMAIN c.danmakuLines}

\* every annotation that has a Visible Item on some Lane
shown(c) ==
    UNION {{laneContents(c)[i].queue[j] : j \in DOMAIN laneContents(c)[i].queue}
             \cup (IF hasFixed(c.danmakuLines[i])
                   THEN {Get(laneContents(c)[i].fixedItem)} ELSE {})
           : i \in DOMAIN c.danmakuLines}

\* C25: an annotation in the Active-Item Registry is not activated again
\* while it is there: no step gives an annotation of the registry a new
\* Visible Item, no annotation ever has two Visible Items, and a candidate
\* found in the registry changes nothing but the cursor, which moves past it.
C25_ActiveIsNotActivatedAgain ==
    [][ /\ \A d \in cb.activeDanmaku :
              Cardinality(placesOf(cb', d)) <= Cardinality(placesOf(cb, d))
        /\ \A d \in shown(cb') : Cardinality(placesOf(cb', d)) = 1
        /\ (pc = "body" /\ Get(cb.data)[index + 1] \in cb.activeDanmaku) =>
              /\ cb' = [cb EXCEPT !.nextDanmakuIndex = index + 1]
              /\ pc' = "head" ]_vars

\* C25 witness: after a seek the search has returned an annotation that is
\* still on a Lane and in the registry, and the loop has moved past it.
C25_Witness ==
    /\ pc = "head"
    /\ index # NULL
    /\ lastOp.op = "tick"
    /\ Get(cb.data)[index + 1] \in cb.activeDanmaku
    /\ Cardinality(placesOf(cb, Get(cb.data)[index + 1])) = 1
    /\ cb.nextDanmakuIndex = index + 1

\* C26: isVisible() agrees with the lifecycle state between operations: it
\* is true exactly when the state is Playing or Paused, and false in Empty
\* and Hide.
C26_IsVisibleAgreesWithState ==
    pc = "idle" => (cb.isVisible <=> cb.state \in {Playing, Paused})

\* C27: whenever a load completion replaces the collection, the cursor is
\* unset when the completion returns, so no cursor computed against one
\* collection indexes another.
C27_SwapUnsetsCursor ==
    [][ (lastOp'.op = "loadDone" /\ pc = "idle" /\ pc' = "idle") =>
            cb'.nextDanmakuIndex = NULL ]_vars
====
